---------------------------- MODULE Spec2Model ----------------------------
(***************************************************************************)
(* A model of rmcp-postgres: the MCP tool handlers of src/src/lib.rs       *)
(* (PostgresServer) and the start-up code of src/src/main.rs.              *)
(*                                                                         *)
(* Text is modelled as a sequence of one-character strings wherever the    *)
(* code works on characters (the connection string, the raw query text),   *)
(* and as a sequence of SQL atoms (a keyword, an identifier, a punctuation *)
(* mark, a digit, a character of a caller-supplied value) wherever the     *)
(* code assembles a statement with format!.                                *)
(***************************************************************************)
EXTENDS Integers, Sequences, FiniteSets, TLC

VARIABLES
    db_config,   \* PostgresServer.db_config: the connection string
    log,         \* the lines main() has written through tracing
    table,       \* the rows of the database table the tools work on
    conns,       \* the connections currently open at the database
    inv,         \* the invocations: stage, arguments, statements, response
    calls        \* the number of invocations received so far

vars == <<db_config, log, table, conns, inv, calls>>

None == [kind |-> "none"]
Some(v) == [kind |-> "some", v |-> v]

(***************************************************************************)
(* Bounds of the model.                                                    *)
(***************************************************************************)
MaxTokens == 3      \* key=value tokens of a connection string
MaxInv == 3         \* invocation slots
MaxCalls == 2       \* invocations received in one run
MaxRows == 3        \* rows the table can hold
MaxConcurrent == 2  \* invocations in progress at the same time

Invs == 1..MaxInv

(***************************************************************************)
(* str: the operations of Rust's str the code uses.                        *)
(***************************************************************************)
Whitespace == {" ", "\t", "\n"}

Min(a, b) == IF a <= b THEN a ELSE b

\* s[i..] starts with pat
MatchAt(s, pat, i) ==
    /\ i + Len(pat) - 1 <= Len(s)
    /\ \A j \in 1..Len(pat) : s[i + j - 1] = pat[j]

starts_with(s, pat) == MatchAt(s, pat, 1)

Occurrences(s, pat) == {i \in 1..(Len(s) + 1) : MatchAt(s, pat, i)}

contains(s, pat) == Occurrences(s, pat) # {}

\* str::find: the position of the first match (1-based), 0 for Option::None
find(s, pat) ==
    IF contains(s, pat)
    THEN CHOOSE i \in Occurrences(s, pat) : \A j \in Occurrences(s, pat) : i <= j
    ELSE 0

\* s[i..]
From(s, i) == SubSeq(s, i, Len(s))

\* str::strip_prefix, on a string that starts with the prefix
strip_prefix(s, pat) == From(s, Len(pat) + 1)

RECURSIVE trim_start(_)
trim_start(s) ==
    IF s # <<>> /\ Head(s) \in Whitespace THEN trim_start(Tail(s)) ELSE s

RECURSIVE trim_end(_)
trim_end(s) ==
    IF s # <<>> /\ s[Len(s)] \in Whitespace
    THEN trim_end(SubSeq(s, 1, Len(s) - 1))
    ELSE s

trim(s) == trim_end(trim_start(s))

Lower == <<"s", "e", "l", "c", "t", "u", "p", "d", "a", "w", "i", "h", "x">>
Upper == <<"S", "E", "L", "C", "T", "U", "P", "D", "A", "W", "I", "H", "X">>

UpperChar(c) ==
    IF \E k \in 1..Len(Lower) : Lower[k] = c
    THEN Upper[CHOOSE k \in 1..Len(Lower) : Lower[k] = c]
    ELSE c

to_uppercase(s) == [i \in 1..Len(s) |-> UpperChar(s[i])]

\* str::split_whitespace: the maximal runs of non-whitespace characters
RECURSIVE split_whitespace(_)
split_whitespace(s) ==
    LET t == trim_start(s)
        ends == {i \in 1..Len(t) : t[i] \in Whitespace}
        stop == IF ends = {} THEN Len(t) + 1
                ELSE CHOOSE i \in ends : \A j \in ends : i <= j
    IN  IF t = <<>> THEN <<>>
        ELSE <<SubSeq(t, 1, stop - 1)>> \o split_whitespace(From(t, stop))

RECURSIVE Join(_, _)
Join(parts, sep) ==
    IF parts = <<>> THEN <<>>
    ELSE IF Len(parts) = 1 THEN parts[1]
    ELSE parts[1] \o sep \o Join(Tail(parts), sep)

(***************************************************************************)
(* main.rs: sanitize_connection_string.                                    *)
(***************************************************************************)
PasswordEq == <<"p", "a", "s", "s", "w", "o", "r", "d", "=">>
Stars == <<"*", "*", "*">>

\* The masking without its test for password=: what C9 must tell apart
\* from sanitize_connection_string.
sanitize_unconditionally(conn_str) ==
    LET pwd_start == find(conn_str, PasswordEq)
        after_pwd == From(conn_str, pwd_start + 9)
        space_pos == find(after_pwd, <<" ">>)
    IN  SubSeq(conn_str, 1, pwd_start - 1) \o PasswordEq \o Stars
            \o (IF space_pos # 0 THEN From(after_pwd, space_pos) ELSE <<>>)

sanitize_connection_string(conn_str) ==
    LET pwd_start == find(conn_str, PasswordEq)
        sanitized == SubSeq(conn_str, 1, pwd_start - 1) \o PasswordEq \o Stars
        after_pwd == From(conn_str, pwd_start + 9)
        space_pos == find(after_pwd, <<" ">>)
    IN  IF pwd_start # 0
        THEN IF space_pos # 0
             THEN sanitized \o From(after_pwd, space_pos)
             ELSE sanitized
        ELSE conn_str

(***************************************************************************)
(* serde_json::Value, as far as the handlers look at it.  A text is a      *)
(* sequence of characters; an object is the sequence of its entries in     *)
(* the map's iteration order.                                              *)
(***************************************************************************)
JText(s) == [kind |-> "text", s |-> s]
JNumber(n) == [kind |-> "number", n |-> n]
JBool(b) == [kind |-> "bool", b |-> b]
JNull == [kind |-> "null"]
JArray == [kind |-> "array"]
JObject(entries) == [kind |-> "object", entries |-> entries]
Entry(k, v) == [k |-> k, v |-> v]

\* Value::as_object: Some(map) for an object, None for every other shape
as_object(v) == IF v.kind = "object" THEN Some(v.entries) ELSE None

\* Value::as_str().unwrap_or(""): the text of a JSON string, "" for the rest
as_str_or_empty(v) == IF v.kind = "text" THEN v.s ELSE <<>>

Digit == <<"0", "1", "2", "3", "4", "5", "6", "7", "8", "9">>

\* Display for an integer: its decimal digits, "-" first when negative
RECURSIVE Decimal(_)
Decimal(n) ==
    IF n < 0 THEN <<"-">> \o Decimal(0 - n)
    ELSE IF n < 10 THEN <<Digit[n + 1]>>
    ELSE Decimal(n \div 10) \o <<Digit[(n % 10) + 1]>>

\* serde_json's string escaping, for the characters values are built from
EscapeChar(c) ==
    IF c = "\"" THEN <<"\\", "\"">>
    ELSE IF c = "\\" THEN <<"\\", "\\">>
    ELSE <<c>>

RECURSIVE EscapeJson(_)
EscapeJson(s) ==
    IF s = <<>> THEN <<>> ELSE EscapeChar(Head(s)) \o EscapeJson(Tail(s))

\* Value::to_string of a scalar: its JSON serialization
to_string(v) ==
    CASE v.kind = "text" -> <<"\"">> \o EscapeJson(v.s) \o <<"\"">>
      [] v.kind = "number" -> Decimal(v.n)
      [] v.kind = "bool" -> IF v.b THEN <<"t", "r", "u", "e">>
                                   ELSE <<"f", "a", "l", "s", "e">>
      [] v.kind = "null" -> <<"n", "u", "l", "l">>
      [] OTHER -> <<"[", "]">>

RECURSIVE trim_start_matches(_, _)
trim_start_matches(s, c) ==
    IF s # <<>> /\ Head(s) = c THEN trim_start_matches(Tail(s), c) ELSE s

RECURSIVE trim_end_matches(_, _)
trim_end_matches(s, c) ==
    IF s # <<>> /\ s[Len(s)] = c
    THEN trim_end_matches(SubSeq(s, 1, Len(s) - 1), c)
    ELSE s

\* str::trim_matches: every leading and trailing c removed
trim_matches(s, c) == trim_end_matches(trim_start_matches(s, c), c)

(***************************************************************************)
(* A statement handed to the database: the primitive called, the SQL text  *)
(* and the values bound to its placeholders.                               *)
(***************************************************************************)
Statement(prim, text, params) == [prim |-> prim, text |-> text, params |-> params]

\* format!("{} = '{}'", k, v.as_str().unwrap_or(""))
Clause(e) == e.k \o <<"=", "'">> \o as_str_or_empty(e.v) \o <<"'">>

Clauses(entries) == [i \in 1..Len(entries) |-> Clause(entries[i])]

\* format!("${}", i)
Placeholder(i) == <<"$">> \o Decimal(i)

Keys(entries) == [i \in 1..Len(entries) |-> entries[i].k]

\* insert_data: v.to_string().trim_matches('"').to_string() for every value
InsertValues(entries) ==
    [i \in 1..Len(entries) |-> trim_matches(to_string(entries[i].v), "\"")]

InsertQuery(table_name, entries) ==
    Statement("execute",
        <<"INSERT", "INTO">> \o table_name
            \o <<"(">> \o Join(Keys(entries), <<",">>) \o <<")">>
            \o <<"VALUES", "(">>
            \o Join([i \in 1..Len(entries) |-> Placeholder(i)], <<",">>)
            \o <<")">>,
        InsertValues(entries))

CountQuery(table_name, where_conditions) ==
    Statement("query_one",
        IF where_conditions.kind = "some"
        THEN <<"SELECT", "COUNT(*)", "FROM">> \o table_name \o <<"WHERE">>
                 \o Join(Clauses(where_conditions.v), <<"AND">>)
        ELSE <<"SELECT", "COUNT(*)", "FROM">> \o table_name,
        <<>>)

SampleDefault == 10
SampleMax == 100

\* get_table_sample: params.limit.unwrap_or(10).min(100)
SampleLimit(limit) ==
    Min(IF limit.kind = "some" THEN limit.v ELSE SampleDefault, SampleMax)

SampleQuery(table_name, limit) ==
    Statement("query",
        <<"SELECT", "*", "FROM">> \o table_name
            \o <<"LIMIT">> \o Decimal(SampleLimit(limit)),
        <<>>)

DefaultLimit == 1000

\* update_data, delete_data: params.limit.unwrap_or(1000)
RowLimit(limit) == IF limit.kind = "some" THEN limit.v ELSE DefaultLimit

UpdateQuery(table_name, values_obj, where_obj, limit) ==
    Statement("execute",
        <<"UPDATE">> \o table_name
            \o <<"SET">> \o Join(Clauses(values_obj), <<",">>)
            \o <<"WHERE">> \o Join(Clauses(where_obj), <<"AND">>)
            \o <<"LIMIT">> \o Decimal(RowLimit(limit)),
        <<>>)

DeleteQuery(table_name, where_obj, limit) ==
    Statement("execute",
        <<"DELETE", "FROM">> \o table_name
            \o <<"WHERE">> \o Join(Clauses(where_obj), <<"AND">>)
            \o <<"LIMIT">> \o Decimal(RowLimit(limit)),
        <<>>)

\* The fixed parts of the catalog queries, each one atom of text.
SchemaSelect == "SELECT table_name, column_name, data_type, is_nullable FROM information_schema.columns"
RelSelect == "SELECT tc.table_name, kcu.column_name, ccu.table_name, ccu.column_name FROM information_schema.table_constraints ... WHERE tc.constraint_type = 'FOREIGN KEY' AND tc.table_schema = 'public'"

SchemaQuery(table_name) ==
    Statement("query",
        IF table_name.kind = "some"
        THEN <<SchemaSelect, "WHERE", "table_name", "=", "'">> \o table_name.v
                 \o <<"'", "ORDER BY ordinal_position">>
        ELSE <<SchemaSelect, "WHERE", "table_schema = 'public'",
               "ORDER BY table_name, ordinal_position">>,
        <<>>)

RelationshipsQuery(table_name) ==
    Statement("query",
        IF table_name.kind = "some"
        THEN <<RelSelect, "AND", "tc.table_name", "=", "'">> \o table_name.v
                 \o <<"'">>
        ELSE <<RelSelect>>,
        <<>>)

ListTablesQuery ==
    Statement("query",
        <<"SELECT tablename FROM pg_tables WHERE schemaname = 'public' ORDER BY tablename">>,
        <<>>)

DescribeColumnsQuery(table_name) ==
    Statement("query",
        <<"SELECT column_name, data_type, is_nullable, column_default FROM information_schema.columns",
          "WHERE", "table_schema = 'public'", "AND", "table_name", "=">>
            \o Placeholder(1) \o <<"ORDER BY ordinal_position">>,
        <<table_name>>)

DescribeIndexesQuery(table_name) ==
    Statement("query",
        <<"SELECT indexname, indexdef FROM pg_indexes",
          "WHERE", "schemaname = 'public'", "AND", "tablename", "=">>
            \o Placeholder(1),
        <<table_name>>)

TableExistsQuery(table_name) ==
    Statement("query_one",
        <<"SELECT EXISTS (SELECT 1 FROM pg_tables",
          "WHERE", "schemaname = 'public'", "AND", "tablename", "=">>
            \o Placeholder(1) \o <<")">>,
        <<table_name>>)

ColumnExistsQuery(table_name, column_name) ==
    Statement("query_one",
        <<"SELECT EXISTS (SELECT 1 FROM information_schema.columns",
          "WHERE", "table_schema = 'public'", "AND", "table_name", "=">>
            \o Placeholder(1) \o <<"AND", "column_name", "=">>
            \o Placeholder(2) \o <<")">>,
        <<table_name, column_name>>)

VersionQuery == Statement("query_one", <<"SELECT version()">>, <<>>)

(***************************************************************************)
(* The database behind tokio_postgres::Client.  It holds one table, t,     *)
(* with the text columns k1 and k2, and reads a statement the way an SQL   *)
(* engine does: it scans the text into lexemes (a '...' literal with ''    *)
(* for a quote inside it, -- starting a comment that runs to the end, a    *)
(* run of digits, a $n placeholder), parses the lexemes, and rejects what  *)
(* does not parse.  The engine applies a trailing LIMIT n to UPDATE and    *)
(* DELETE as the handlers expect it to.                                    *)
(***************************************************************************)
TableName == <<"t">>
Columns == {"k1", "k2"}
ColumnOrder == <<"k1", "k2">>

Cell(s) == [null |-> FALSE, s |-> s]
NullCell == [null |-> TRUE, s |-> <<>>]

W(a) == [k |-> "w", a |-> a]
Lit(s) == [k |-> "lit", s |-> s]
Num(n) == [k |-> "num", n |-> n]
Ph(n) == [k |-> "ph", n |-> n]

IsDigit(c) == \E d \in 1..10 : Digit[d] = c
DigitVal(c) == (CHOOSE d \in 1..10 : Digit[d] = c) - 1

RECURSIVE DigitRun(_)
DigitRun(text) ==
    IF text # <<>> /\ IsDigit(Head(text)) THEN 1 + DigitRun(Tail(text)) ELSE 0

RECURSIVE NumVal(_)
NumVal(ds) ==
    IF ds = <<>> THEN 0
    ELSE 10 * NumVal(SubSeq(ds, 1, Len(ds) - 1)) + DigitVal(ds[Len(ds)])

RECURSIVE Lex(_, _)
RECURSIVE LexString(_, _, _)
Lex(text, out) ==
    IF text = <<>> \/ Head(text) = "--" THEN [ok |-> TRUE, toks |-> out]
    ELSE IF Head(text) = "'" THEN LexString(Tail(text), <<>>, out)
    ELSE IF IsDigit(Head(text))
    THEN LET n == DigitRun(text)
         IN  Lex(From(text, n + 1), Append(out, Num(NumVal(SubSeq(text, 1, n)))))
    ELSE IF Head(text) = "$" /\ DigitRun(Tail(text)) > 0
    THEN LET n == DigitRun(Tail(text))
         IN  Lex(From(text, n + 2), Append(out, Ph(NumVal(SubSeq(text, 2, n + 1)))))
    ELSE Lex(Tail(text), Append(out, W(Head(text))))

LexString(text, cur, out) ==
    IF text = <<>> THEN [ok |-> FALSE, toks |-> <<>>]
    ELSE IF Head(text) = "'"
    THEN IF Len(text) >= 2 /\ text[2] = "'"
         THEN LexString(From(text, 3), Append(cur, "'"), out)
         ELSE Lex(Tail(text), Append(out, Lit(cur)))
    ELSE LexString(Tail(text), Append(cur, Head(text)), out)

IsW(l, a) == l.k = "w" /\ l.a = a

IndexOfW(L, a) ==
    LET hits == {i \in 1..Len(L) : IsW(L[i], a)}
    IN  IF hits = {} THEN 0 ELSE CHOOSE i \in hits : \A j \in hits : i <= j

\* column = 'literal' pairs separated by sep
PairsOk(seg, sep) ==
    /\ Len(seg) % 4 = 3
    /\ \A i \in 1..Len(seg) :
         CASE i % 4 = 1 -> seg[i].k = "w" /\ seg[i].a \in Columns
           [] i % 4 = 2 -> IsW(seg[i], "=")
           [] i % 4 = 3 -> seg[i].k = "lit"
           [] OTHER -> IsW(seg[i], sep)

Pairs(seg) ==
    [j \in 1..((Len(seg) + 1) \div 4) |->
        [col |-> seg[4 * j - 3].a, val |-> seg[4 * j - 1].s]]

\* [WHERE pairs] [LIMIT n], to the end of the statement
ParseFilter(rest) ==
    LET hasWhere == rest # <<>> /\ IsW(rest[1], "WHERE")
        il == IndexOfW(rest, "LIMIT")
        seg == IF hasWhere
               THEN SubSeq(rest, 2, IF il = 0 THEN Len(rest) ELSE il - 1)
               ELSE <<>>
        limitOk == il = 0 \/ (il = Len(rest) - 1 /\ rest[Len(rest)].k = "num")
        whereOk == IF hasWhere THEN PairsOk(seg, "AND")
                   ELSE rest = <<>> \/ il = 1
    IN  [ok |-> limitOk /\ whereOk,
         conds |-> IF hasWhere /\ PairsOk(seg, "AND") THEN Pairs(seg) ELSE <<>>,
         limit |-> IF il # 0 /\ limitOk THEN Some(rest[Len(rest)].n) ELSE None]

Rejected == [ok |-> FALSE]

\* The parsed form of a statement on table t, or Rejected.
Parse(text) ==
    LET lx == Lex(text, <<>>)
        L == lx.toks
        n == Len(L)
        Is(i, a) == i <= n /\ IsW(L[i], a)
        endSet == LET iw == IndexOfW(L, "WHERE")
                      il == IndexOfW(L, "LIMIT")
                  IN  IF iw # 0 THEN iw ELSE IF il # 0 THEN il ELSE n + 1
        sets == SubSeq(L, 4, endSet - 1)
        close == IndexOfW(L, ")")
        cols == SubSeq(L, 5, close - 1)
        phs == SubSeq(L, close + 3, n - 1)
        ListOk(seg, Item(_)) ==
            /\ Len(seg) % 2 = 1
            /\ \A i \in 1..Len(seg) :
                 IF i % 2 = 1 THEN Item(seg[i]) ELSE IsW(seg[i], ",")
        IsColumn(l) == l.k = "w" /\ l.a \in Columns
        IsPh(l) == l.k = "ph"
        Odd(seg) == [j \in 1..((Len(seg) + 1) \div 2) |-> seg[2 * j - 1]]
    IN  IF ~lx.ok THEN Rejected
        ELSE IF Is(1, "UPDATE") /\ Is(2, TableName[1]) /\ Is(3, "SET")
        THEN LET f == ParseFilter(SubSeq(L, endSet, n))
             IN  IF PairsOk(sets, ",") /\ f.ok
                 THEN [ok |-> TRUE, verb |-> "update", sets |-> Pairs(sets),
                       conds |-> f.conds, limit |-> f.limit]
                 ELSE Rejected
        ELSE IF Is(1, "DELETE") /\ Is(2, "FROM") /\ Is(3, TableName[1])
        THEN LET f == ParseFilter(SubSeq(L, 4, n))
             IN  IF f.ok
                 THEN [ok |-> TRUE, verb |-> "delete",
                       conds |-> f.conds, limit |-> f.limit]
                 ELSE Rejected
        ELSE IF Is(1, "SELECT") /\ (Is(2, "COUNT(*)") \/ Is(2, "*"))
                /\ Is(3, "FROM") /\ Is(4, TableName[1])
        THEN LET f == ParseFilter(SubSeq(L, 5, n))
             IN  IF f.ok
                 THEN [ok |-> TRUE,
                       verb |-> IF Is(2, "*") THEN "select" ELSE "count",
                       conds |-> f.conds, limit |-> f.limit]
                 ELSE Rejected
        ELSE IF Is(1, "INSERT") /\ Is(2, "INTO") /\ Is(3, TableName[1])
                /\ Is(4, "(") /\ close > 5 /\ Is(close + 1, "VALUES")
                /\ Is(close + 2, "(") /\ Is(n, ")") /\ n > close + 3
        THEN IF /\ ListOk(cols, IsColumn) /\ ListOk(phs, IsPh)
                /\ Len(cols) = Len(phs)
                /\ \A i, j \in 1..Len(Odd(cols)) :
                     Odd(cols)[i].a = Odd(cols)[j].a => i = j
                /\ \A j \in 1..Len(Odd(phs)) : Odd(phs)[j].n = j
             THEN [ok |-> TRUE, verb |-> "insert",
                   cols |-> [j \in 1..Len(Odd(cols)) |-> Odd(cols)[j].a]]
             ELSE Rejected
        ELSE Rejected

(***************************************************************************)
(* What the engine does with a parsed statement.                           *)
(***************************************************************************)
Matches(row, conds) ==
    \A j \in 1..Len(conds) :
        ~row[conds[j].col].null /\ row[conds[j].col].s = conds[j].val

\* The rows a filter selects: the matching rows, the first n of them under LIMIT n
Hit(tbl, p) ==
    {i \in 1..Len(tbl) :
        /\ Matches(tbl[i], p.conds)
        /\ \/ p.limit.kind = "none"
           \/ Cardinality({j \in 1..i : Matches(tbl[j], p.conds)}) <= p.limit.v}

RECURSIVE Assign(_, _)
Assign(row, sets) ==
    IF sets = <<>> THEN row
    ELSE Assign([row EXCEPT ![Head(sets).col] = Cell(Head(sets).val)], Tail(sets))

RECURSIVE Without(_, _, _)
Without(tbl, drop, i) ==
    IF i > Len(tbl) THEN <<>>
    ELSE (IF i \in drop THEN <<>> ELSE <<tbl[i]>>) \o Without(tbl, drop, i + 1)

RECURSIVE Picked(_, _, _)
Picked(tbl, keep, i) ==
    IF i > Len(tbl) THEN <<>>
    ELSE (IF i \in keep THEN <<tbl[i]>> ELSE <<>>) \o Picked(tbl, keep, i + 1)

\* A column of a result row: its name, its PostgreSQL type and its value
\* (n for an integer type, s for a text or the digits of a float, b for a
\* boolean)
NullCol(name, ty) ==
    [name |-> name, ty |-> ty, null |-> TRUE, n |-> 0, s |-> <<>>, b |-> FALSE]
IntCol(name, ty, n) == [NullCol(name, ty) EXCEPT !.null = FALSE, !.n = n]
TextCol(name, ty, s) == [NullCol(name, ty) EXCEPT !.null = FALSE, !.s = s]
BoolCol(name, b) == [NullCol(name, "bool") EXCEPT !.null = FALSE, !.b = b]

CellCol(name, cell) ==
    IF cell.null THEN NullCol(name, "text") ELSE TextCol(name, "text", cell.s)

RowOf(r) == [c \in 1..Len(ColumnOrder) |-> CellCol(<<ColumnOrder[c]>>, r[ColumnOrder[c]])]

Failure == [ok |-> FALSE]
Rows(rows, tbl) == [ok |-> TRUE, rows |-> rows, n |-> Len(rows), table |-> tbl]
Affected(n, tbl) == [ok |-> TRUE, rows |-> <<>>, n |-> n, table |-> tbl]

Run(p, params, tbl) ==
    CASE p.verb = "update" ->
            Affected(Cardinality(Hit(tbl, p)),
                [i \in 1..Len(tbl) |->
                    IF i \in Hit(tbl, p) THEN Assign(tbl[i], p.sets) ELSE tbl[i]])
      [] p.verb = "delete" ->
            Affected(Cardinality(Hit(tbl, p)), Without(tbl, Hit(tbl, p), 1))
      [] p.verb = "count" ->
            Rows(<<<<IntCol(<<"count">>, "int8", Cardinality(Hit(tbl, p)))>>>>, tbl)
      [] p.verb = "select" ->
            Rows([i \in 1..Cardinality(Hit(tbl, p)) |->
                     RowOf(Picked(tbl, Hit(tbl, p), 1)[i])], tbl)
      [] OTHER ->  \* insert: one text parameter per column, the rest NULL
            IF Len(params) # Len(p.cols) THEN Failure
            ELSE Affected(1, Append(tbl,
                    [c \in Columns |->
                        IF \E j \in 1..Len(p.cols) : p.cols[j] = c
                        THEN Cell(params[CHOOSE j \in 1..Len(p.cols) : p.cols[j] = c])
                        ELSE NullCell]))

(***************************************************************************)
(* Result sets the database can return for text it is given verbatim       *)
(* (query_data, execute_raw_query): rows over the column types.            *)
(***************************************************************************)
NameA == <<"a">>
NameB == <<"b">>

OneAndAHalf == <<"1", ".", "5">>

SampleColumns ==
    {IntCol(NameA, "int2", 7), IntCol(NameA, "int4", 7), IntCol(NameA, "int8", 7),
     TextCol(NameA, "float4", OneAndAHalf), TextCol(NameA, "float8", OneAndAHalf),
     BoolCol(NameA, TRUE),
     TextCol(NameA, "text", <<"x">>), TextCol(NameA, "varchar", <<"x">>),
     TextCol(NameA, "bpchar", <<"x">>), TextCol(NameA, "numeric", OneAndAHalf),
     NullCol(NameA, "int8"), NullCol(NameA, "text")}

RoundTripRow ==
    <<IntCol(<<"i">>, "int8", 7), TextCol(<<"f">>, "float8", OneAndAHalf),
      BoolCol(NameB, TRUE), TextCol(NameA, "text", <<"x">>)>>

\* Three rows told apart by their value, the middle one of a type that
\* row_to_json cannot convert
OrderedRows ==
    <<<<IntCol(NameA, "int8", 1)>>, <<IntCol(NameA, "int2", 2)>>,
      <<IntCol(NameA, "int8", 3)>>>>

ResultSets ==
    {<<>>, OrderedRows} \cup {<<<<c>>>> : c \in SampleColumns}
        \cup {<<RoundTripRow>>, <<RoundTripRow, RoundTripRow>>,
              <<<<IntCol(NameB, "int8", 1), IntCol(NameA, "int8", 2)>>>>,
              <<<<IntCol(NameA, "int8", 1), TextCol(NameA, "text", <<"x">>)>>>>}

CatalogText == {SchemaSelect, RelSelect, ListTablesQuery.text[1],
                DescribeColumnsQuery(TableName).text[1],
                DescribeIndexesQuery(TableName).text[1],
                TableExistsQuery(TableName).text[1],
                ColumnExistsQuery(TableName, TableName).text[1],
                VersionQuery.text[1]}

SqlVerbs == {"UPDATE", "DELETE", "SELECT", "INSERT"}

\* The characters caller-supplied values are made of; outside a literal
\* they are no SQL.
DataChars == {"a", "b", "x", "\""}

CatalogRow(a, b) == <<TextCol(<<"c1">>, "text", a), TextCol(<<"c2">>, "text", b)>>

\* The catalog's answer: what it holds about table t (and its columns),
\* filtered by the literal or the bound values the statement compares with.
Catalog(stmt, tbl) ==
    LET lx == Lex(stmt.text, <<>>)
        L == lx.toks
        lits == {i \in 1..Len(L) : L[i].k = "lit"}
        phs == {i \in 1..Len(L) : L[i].k = "ph"}
        first == stmt.text[1]
        about == IF phs # {} THEN stmt.params[1]
                 ELSE IF lits # {} THEN L[CHOOSE i \in lits : TRUE].s
                 ELSE TableName
        column == IF Len(stmt.params) = 2 THEN stmt.params[2] ELSE <<"k1">>
        known == about = TableName /\ column \in {<<c>> : c \in Columns}
        bad == \/ ~lx.ok
               \/ Cardinality(lits) > 1
               \/ Cardinality(phs) # Len(stmt.params)
               \/ \E i \in 1..Len(L) : L[i].k = "w" /\ L[i].a \in DataChars
    IN  IF bad THEN {}
        ELSE IF first = VersionQuery.text[1]
        THEN {Rows(<<<<TextCol(<<"version">>, "text", <<"P", "G">>)>>>>, tbl)}
        ELSE IF first \in {TableExistsQuery(TableName).text[1],
                           ColumnExistsQuery(TableName, TableName).text[1]}
        THEN {Rows(<<<<BoolCol(<<"exists">>, known)>>>>, tbl)}
        ELSE IF first = RelSelect THEN {Rows(<<>>, tbl)}
        ELSE IF first = ListTablesQuery.text[1]
        THEN {Rows(<<<<TextCol(<<"tablename">>, "text", TableName)>>>>, tbl)}
        ELSE IF about = TableName
        THEN {Rows(<<CatalogRow(<<"k1">>, <<"text">>),
                     CatalogRow(<<"k2">>, <<"text">>)>>, tbl)}
        ELSE {Rows(<<>>, tbl)}

\* Every outcome the database can give for a statement, with the table after it.
DbOutcomes(stmt, tbl) ==
    {Failure} \cup
    (IF stmt.text # <<>> /\ stmt.text[1] \in SqlVerbs
     THEN IF Parse(stmt.text).ok
          THEN {Run(Parse(stmt.text), stmt.params, tbl)}
          ELSE {}
     ELSE IF stmt.text # <<>> /\ stmt.text[1] \in CatalogText
     THEN Catalog(stmt, tbl)
     ELSE {Rows(rs, tbl) : rs \in ResultSets})

(***************************************************************************)
(* lib.rs: row_to_json.  try_get::<T> fails for a NULL value and for a     *)
(* column type T's FromSql implementation does not accept.                 *)
(***************************************************************************)
JFloat(f) == [kind |-> "float", f |-> f]

Accepts(rust) ==
    CASE rust = "i64" -> {"int8"}
      [] rust = "f64" -> {"float8"}
      [] rust = "bool" -> {"bool"}
      [] OTHER -> {"text", "varchar", "bpchar", "name", "unknown"}

try_get(column, rust) ==
    IF ~column.null /\ column.ty \in Accepts(rust)
    THEN Some(CASE rust = "i64" -> column.n
                [] rust = "bool" -> column.b
                [] OTHER -> column.s)
    ELSE None

\* serde_json::json!(v) of a Rust value
json_of(v, rust) ==
    CASE rust = "i64" -> JNumber(v)
      [] rust = "f64" -> JFloat(v)
      [] rust = "bool" -> JBool(v)
      [] OTHER -> JText(v)

\* row.try_get::<_, T>(idx).map(|v| json!(v)).unwrap_or(Value::Null)
GetOrNull(column, rust) ==
    LET r == try_get(column, rust)
    IN  IF r.kind = "some" THEN json_of(r.v, rust) ELSE JNull

\* the match on column.type_().name()
FieldValue(column) ==
    CASE column.ty \in {"int4", "int8"} -> GetOrNull(column, "i64")
      [] column.ty \in {"float4", "float8"} -> GetOrNull(column, "f64")
      [] column.ty = "bool" -> GetOrNull(column, "bool")
      [] column.ty \in {"text", "varchar"} -> GetOrNull(column, "String")
      [] OTHER -> GetOrNull(column, "String")

\* The order of String keys in serde_json::Map (a BTreeMap)
AtomOrder == <<"a", "b", "c1", "c2", "count", "exists", "f", "i", "k1", "k2",
               "tablename", "version">>
Rank(a) == CHOOSE r \in 1..Len(AtomOrder) : AtomOrder[r] = a

RECURSIVE Less(_, _)
Less(x, y) ==
    IF y = <<>> THEN FALSE
    ELSE IF x = <<>> THEN TRUE
    ELSE IF Head(x) = Head(y) THEN Less(Tail(x), Tail(y))
    ELSE Rank(Head(x)) < Rank(Head(y))

\* Map::insert: the value of an existing key is replaced, a new key is
\* put at its place in key order
MapInsert(map, k, v) ==
    IF \E i \in 1..Len(map) : map[i].k = k
    THEN [i \in 1..Len(map) |-> IF map[i].k = k THEN Entry(k, v) ELSE map[i]]
    ELSE LET before == Cardinality({i \in 1..Len(map) : Less(map[i].k, k)})
         IN  SubSeq(map, 1, before) \o <<Entry(k, v)>> \o From(map, before + 1)

RECURSIVE InsertColumns(_, _)
InsertColumns(map, columns) ==
    IF columns = <<>> THEN map
    ELSE InsertColumns(MapInsert(map, Head(columns).name, FieldValue(Head(columns))),
                       Tail(columns))

row_to_json(row) == JObject(InsertColumns(<<>>, row))

(***************************************************************************)
(* The requests the model draws its invocations from.                      *)
(***************************************************************************)
K1 == <<"k1">>
K2 == <<"k2">>
Ta == <<"a">>
Tinj == <<"a", "'", "--">>

Scalars == {JText(Ta), JText(Tinj), JNumber(5), JBool(TRUE), JNull}
NonObjects == {JText(Ta), JArray}

OneEntry == {<<Entry(k, v)>> : k \in {K1, K2}, v \in Scalars}
TwoEntries == {<<Entry(K1, v), Entry(K2, w)>> : v, w \in {JText(Ta), JNumber(5)}}

WhereObjects == {JObject(e) : e \in {<<>>} \cup OneEntry \cup TwoEntries}
SetObjects == {JObject(e) : e \in {<<>>} \cup {<<Entry(K1, v)>> : v \in Scalars}}
DataObjects == WhereObjects
ArrayData == JObject(<<Entry(K1, JArray)>>)

RowLimits == {None, Some(0 - 1), Some(0), Some(1), Some(2)}
SampleLimits == {None, Some(0 - 5), Some(0), Some(1), Some(100), Some(101), Some(500)}

SelectUpper == <<"S", "E", "L", "E", "C", "T">>

RawQueries ==
    {lead \o word \o rest :
        lead \in {<<>>, <<" ">>, <<"\n", " ">>},
        word \in {SelectUpper, <<"s", "e", "l", "e", "c", "t">>,
                  <<"S", "e", "L", "e", "c", "T">>, <<"S", "E", "L", "E", "C">>,
                  <<"U", "P", "D", "A", "T", "E">>, <<"w", "i", "t", "h">>,
                  <<"(", "S", "E", "L", "E", "C", "T">>},
        rest \in {<<>>, <<" ", "1", " ">>, <<"x">>}}

QueryTexts == {SelectUpper \o <<" ", "1">>, <<"w", "i", "t", "h">>}

TableFilters == {None, Some(TableName), Some(Tinj), Some(<<"u">>)}

Request(op, args) == <<op, args>>

Requests ==
    {Request("query_data", [query |-> q]) : q \in QueryTexts}
    \cup {Request("get_schema", [table_name |-> t]) : t \in TableFilters}
    \cup {Request("insert_data", [table_name |-> TableName, data |-> d]) :
            d \in DataObjects \cup {ArrayData} \cup NonObjects}
    \cup {Request("list_tables", [none |-> TRUE])}
    \cup {Request("describe_table", [table_name |-> t]) : t \in {TableName, Tinj}}
    \cup {Request("count_rows", [table_name |-> TableName, where_conditions |-> w]) :
            w \in {None} \cup {Some(o) : o \in WhereObjects \cup NonObjects}}
    \cup {Request("table_exists", [table_name |-> t]) : t \in {TableName, Tinj}}
    \cup {Request("column_exists", [table_name |-> TableName, column_name |-> c]) :
            c \in {K1, Tinj}}
    \cup {Request("get_table_sample", [table_name |-> TableName, limit |-> l]) :
            l \in SampleLimits}
    \cup {Request("update_data", [table_name |-> TableName, values |-> v,
                                  where_conditions |-> w, limit |-> l]) :
            v \in SetObjects \cup NonObjects,
            w \in WhereObjects \cup NonObjects, l \in RowLimits}
    \cup {Request("delete_data", [table_name |-> TableName,
                                  where_conditions |-> w, limit |-> l]) :
            w \in WhereObjects \cup NonObjects, l \in RowLimits}
    \cup {Request("execute_raw_query", [query |-> q, params |-> None]) :
            q \in RawQueries}
    \cup {Request("get_relationships", [table_name |-> t]) : t \in TableFilters}
    \cup {Request("get_connection_status", [none |-> TRUE])}

(***************************************************************************)
(* lib.rs: the tool handlers, stage by stage.                              *)
(***************************************************************************)
\* The classification without trim(): what C5 must tell apart from IsSelect.
IsSelectUntrimmed(query) == starts_with(to_uppercase(query), SelectUpper)

\* execute_raw_query: params.query.trim().to_uppercase().starts_with("SELECT")

IsSelect(query) == starts_with(to_uppercase(trim(query)), SelectUpper)

\* The as_object() checks of a handler: TRUE when one of them fails.
ShapeError(op, args) ==
    CASE op = "insert_data" -> as_object(args.data).kind = "none"
      [] op = "update_data" ->
            \/ as_object(args.values).kind = "none"
            \/ as_object(args.where_conditions).kind = "none"
      [] op = "delete_data" -> as_object(args.where_conditions).kind = "none"
      [] op = "count_rows" ->
            /\ args.where_conditions.kind = "some"
            /\ as_object(args.where_conditions.v).kind = "none"
      [] OTHER -> FALSE

\* The statements a handler hands to the database, in order.
\* insert_data executing its statement twice: what C13 must tell apart
\* from Statements.
StatementsInsertTwice(op, args) ==
    CASE op = "insert_data" ->
            <<InsertQuery(args.table_name, args.data.entries),
              InsertQuery(args.table_name, args.data.entries)>>
      [] op = "count_rows" -> <<CountQuery(args.table_name, args.where_conditions)>>
      [] OTHER -> <<VersionQuery>>

Statements(op, args) ==
    CASE op = "query_data" -> <<Statement("query", args.query, <<>>)>>
      [] op = "get_schema" -> <<SchemaQuery(args.table_name)>>
      [] op = "insert_data" ->
            <<InsertQuery(args.table_name, as_object(args.data).v)>>
      [] op = "list_tables" -> <<ListTablesQuery>>
      [] op = "describe_table" ->
            <<DescribeColumnsQuery(args.table_name),
              DescribeIndexesQuery(args.table_name)>>
      [] op = "count_rows" ->
            <<CountQuery(args.table_name,
                IF args.where_conditions.kind = "some"
                THEN as_object(args.where_conditions.v)
                ELSE None)>>
      [] op = "table_exists" -> <<TableExistsQuery(args.table_name)>>
      [] op = "column_exists" ->
            <<ColumnExistsQuery(args.table_name, args.column_name)>>
      [] op = "get_table_sample" -> <<SampleQuery(args.table_name, args.limit)>>
      [] op = "update_data" ->
            <<UpdateQuery(args.table_name, as_object(args.values).v,
                          as_object(args.where_conditions).v, args.limit)>>
      [] op = "delete_data" ->
            <<DeleteQuery(args.table_name, as_object(args.where_conditions).v,
                          args.limit)>>
      [] op = "execute_raw_query" ->
            <<Statement(IF IsSelect(args.query) THEN "query" ELSE "execute",
                        args.query, <<>>)>>
      [] op = "get_relationships" -> <<RelationshipsQuery(args.table_name)>>
      [] OTHER -> <<VersionQuery>>

\* get_connection_status: the value of the first token that starts with key
ConfigValue(config, key, default) ==
    LET tokens == split_whitespace(config)
        hits == {i \in 1..Len(tokens) : starts_with(tokens[i], key)}
    IN  IF hits = {} THEN default
        ELSE strip_prefix(tokens[CHOOSE i \in hits : \A j \in hits : i <= j], key)

HostEq == <<"h", "o", "s", "t", "=">>
UserEq == <<"u", "s", "e", "r", "=">>
DbnameEq == <<"d", "b", "n", "a", "m", "e", "=">>
Unknown == <<"u", "n", "k", "n", "o", "w", "n">>
Localhost == <<"l", "o", "c", "a", "l", "h", "o", "s", "t">>

\* The status that reads user from the password= token: what C7 must tell
\* apart from ConnectionStatus.
ConnectionStatusLeaking(config, version) ==
    [connected |-> TRUE,
     database |-> ConfigValue(config, DbnameEq, Unknown),
     user |-> ConfigValue(config, PasswordEq, Unknown),
     host |-> ConfigValue(config, HostEq, Localhost),
     version |-> version]

ConnectionStatus(config, version) ==
    [connected |-> TRUE,
     database |-> ConfigValue(config, DbnameEq, Unknown),
     user |-> ConfigValue(config, UserEq, Unknown),
     host |-> ConfigValue(config, HostEq, Localhost),
     version |-> version]

MarshalsRows(op, args) ==
    \/ op \in {"query_data", "get_table_sample"}
    \/ op = "execute_raw_query" /\ IsSelect(args.query)

\* The success body of a handler, from what the database returned.
Body(op, args, results, json, config) ==
    CASE op = "query_data" -> [rows |-> json, row_count |-> Len(json)]
      [] op = "get_table_sample" ->
            [table_name |-> args.table_name, rows |-> json, count |-> Len(json)]
      [] op = "execute_raw_query" ->
            IF IsSelect(args.query)
            THEN [rows |-> json, count |-> Len(json)]
            ELSE [rows_affected |-> results[1].n]
      [] op \in {"update_data", "delete_data"} ->
            [table_name |-> args.table_name, rows_affected |-> results[1].n]
      [] op = "count_rows" ->
            [table_name |-> args.table_name, count |-> results[1].rows[1][1].n]
      [] op = "insert_data" -> [inserted_into |-> args.table_name]
      [] op \in {"table_exists", "column_exists"} ->
            [table_name |-> args.table_name, exists |-> results[1].rows[1][1].b]
      [] op = "describe_table" ->
            [table_name |-> args.table_name, columns |-> results[1].rows,
             indexes |-> results[2].rows]
      [] op = "get_connection_status" ->
            ConnectionStatus(config, results[1].rows[1][1].s)
      [] OTHER -> [rows |-> results[1].rows]

Success(body) == [kind |-> "success", body |-> body]
InternalError(msg) == [kind |-> "error", code |-> "internal_error", msg |-> msg]
InvalidParams(msg) == [kind |-> "error", code |-> "invalid_params", msg |-> msg]

Terminal == {"Responded", "Failed"}

Idle == [pc |-> "Idle", op |-> "none", args |-> [none |-> TRUE], client |-> 0,
         stmts |-> <<>>, sent |-> <<>>, results |-> <<>>, json |-> <<>>,
         resp |-> None]

Received(req) == [Idle EXCEPT !.pc = "Received", !.op = req[1], !.args = req[2]]

\* The server takes one request at a time here.
CanInvoke ==
    /\ log # <<>>
    /\ calls < MaxCalls
    /\ \A j \in Invs : inv[j].pc \in Terminal \cup {"Idle"}

\* The tool router calls a handler with its decoded parameter struct.
Invoke(i) ==
    /\ CanInvoke
    /\ \E req \in Requests :
        /\ req[1] = "insert_data" => Len(table) < MaxRows
        /\ inv' = [inv EXCEPT ![i] = Received(req)]
    /\ calls' = calls + 1
    /\ UNCHANGED <<db_config, log, table, conns>>

InvokeStatus(i) ==
    /\ CanInvoke
    /\ inv' = [inv EXCEPT
            ![i] = Received(Request("get_connection_status", [none |-> TRUE]))]
    /\ calls' = calls + 1
    /\ UNCHANGED <<db_config, log, table, conns>>

\* A get_client that hands every handler the same client: what C14 must
\* tell apart from Connected.
ConnectedShared(i) ==
    /\ inv[i].pc = "Received"
    /\ conns' = conns \cup {1}
    /\ inv' = [inv EXCEPT ![i].pc = "Connected", ![i].client = 1]
    /\ UNCHANGED <<db_config, log, table, calls>>

\* get_client: tokio_postgres::connect succeeds ...
Connected(i) ==
    /\ inv[i].pc = "Received"
    /\ LET c == CHOOSE c \in Invs \ conns : \A d \in Invs \ conns : c <= d
       IN  /\ conns' = conns \cup {c}
           /\ inv' = [inv EXCEPT ![i].pc = "Connected", ![i].client = c]
    /\ UNCHANGED <<db_config, log, table, calls>>

\* ... or fails, and the handler returns "DB connection failed"
ConnectFailed(i) ==
    /\ inv[i].pc = "Received"
    /\ inv' = [inv EXCEPT ![i].pc = "Failed",
                          ![i].resp = InternalError("DB connection failed")]
    /\ UNCHANGED <<db_config, log, table, conns, calls>>

\* A handler that keeps its client when an as_object() check fails: what
\* C16 must tell apart from Decode.
DecodeKeepingClient(i) ==
    /\ inv[i].pc = "Connected"
    /\ inv' = [inv EXCEPT
            ![i].pc = IF ShapeError(inv[i].op, inv[i].args) THEN "Failed" ELSE "Decoded",
            ![i].resp = IF ShapeError(inv[i].op, inv[i].args)
                        THEN InvalidParams("must be a JSON object")
                        ELSE inv[i].resp]
    /\ UNCHANGED <<db_config, log, table, conns, calls>>

\* The as_object() checks; on an error the handler returns and drops the client.
Decode(i) ==
    /\ inv[i].pc = "Connected"
    /\ IF ShapeError(inv[i].op, inv[i].args)
       THEN /\ inv' = [inv EXCEPT ![i].pc = "Failed", ![i].client = 0,
                                  ![i].resp = InvalidParams("must be a JSON object")]
            /\ conns' = conns \ {inv[i].client}
       ELSE /\ inv' = [inv EXCEPT ![i].pc = "Decoded"]
            /\ conns' = conns
    /\ UNCHANGED <<db_config, log, table, calls>>

\* The format! calls that build the SQL text.
Build(i) ==
    /\ inv[i].pc = "Decoded"
    /\ inv' = [inv EXCEPT ![i].pc = "Built",
                          ![i].stmts = Statements(inv[i].op, inv[i].args)]
    /\ UNCHANGED <<db_config, log, table, conns, calls>>

\* What the called primitive makes of the database's outcome: query_one
\* wants exactly one row.
Returned(stmt, out) ==
    out.ok /\ (stmt.prim = "query_one" => Len(out.rows) = 1)

\* client.query / query_one / execute of the next statement
Execute(i) ==
    /\ inv[i].pc = "Built"
    /\ LET stmt == Head(inv[i].stmts)
       IN  \E out \in DbOutcomes(stmt, table) :
            IF Returned(stmt, out)
            THEN /\ inv' = [inv EXCEPT
                        ![i].pc = IF Len(inv[i].stmts) = 1 THEN "Executed" ELSE "Built",
                        ![i].stmts = Tail(inv[i].stmts),
                        ![i].sent = Append(inv[i].sent, stmt),
                        ![i].results = Append(inv[i].results,
                                              [rows |-> out.rows, n |-> out.n])]
                 /\ table' = out.table
                 /\ conns' = conns
            ELSE /\ inv' = [inv EXCEPT
                        ![i].pc = "Failed", ![i].client = 0,
                        ![i].sent = Append(inv[i].sent, stmt),
                        ![i].resp = InternalError("query failed")]
                 /\ table' = IF out.ok THEN out.table ELSE table
                 /\ conns' = conns \ {inv[i].client}
    /\ UNCHANGED <<db_config, log, calls>>

\* A marshalling that leaves out the rows with a column it could not
\* convert: what C11 must tell apart from Marshal.
MarshalDropping(i) ==
    /\ inv[i].pc = "Executed"
    /\ inv' = [inv EXCEPT
            ![i].pc = "Marshalled",
            ![i].json =
                IF MarshalsRows(inv[i].op, inv[i].args)
                THEN SelectSeq([r \in 1..Len(inv[i].results[1].rows) |->
                                   row_to_json(inv[i].results[1].rows[r])],
                               LAMBDA o : \A k \in 1..Len(o.entries) :
                                              o.entries[k].v.kind # "null")
                ELSE <<>>]
    /\ UNCHANGED <<db_config, log, table, conns, calls>>

\* rows.iter().map(|row| self.row_to_json(row)).collect()
Marshal(i) ==
    /\ inv[i].pc = "Executed"
    /\ inv' = [inv EXCEPT
            ![i].pc = "Marshalled",
            ![i].json = IF MarshalsRows(inv[i].op, inv[i].args)
                        THEN [r \in 1..Len(inv[i].results[1].rows) |->
                                 row_to_json(inv[i].results[1].rows[r])]
                        ELSE <<>>]
    /\ UNCHANGED <<db_config, log, table, conns, calls>>

\* Ok(CallToolResult::success(..)); the client is dropped as the handler returns.
Respond(i) ==
    /\ inv[i].pc = "Marshalled"
    /\ inv' = [inv EXCEPT
            ![i].pc = "Responded", ![i].client = 0,
            ![i].resp = Success(Body(inv[i].op, inv[i].args, inv[i].results,
                                     inv[i].json, db_config))]
    /\ conns' = conns \ {inv[i].client}
    /\ UNCHANGED <<db_config, log, table, calls>>

(***************************************************************************)
(* main.rs: main logs the sanitized connection string, then serves.        *)
(***************************************************************************)
Start ==
    /\ log = <<>>
    /\ log' = <<sanitize_connection_string(db_config)>>
    /\ UNCHANGED <<db_config, table, conns, inv, calls>>

\* password='p user=q': a quoted value with a space in it
QuotedPassword == PasswordEq \o <<"'", "p", " ">> \o UserEq \o <<"q", "'">>

ConfigTokens ==
    {HostEq \o <<"H">>, UserEq \o <<"U">>, DbnameEq \o <<"D">>,
     PasswordEq \o <<"x">>, PasswordEq \o <<"y">>,
     PasswordEq \o UserEq \o <<"x">>, QuotedPassword,
     <<"p", "a", "s", "s", "w", "d", "=", "z">>}

RECURSIVE TokenLists(_)
TokenLists(n) ==
    IF n = 0 THEN {<<>>}
    ELSE TokenLists(n - 1)
         \cup {Append(l, t) : l \in {m \in TokenLists(n - 1) : Len(m) = n - 1},
                              t \in ConfigTokens}

ConnStrings == {Join(l, <<" ">>) : l \in TokenLists(MaxTokens)}

DefaultConfig == Join(<<HostEq \o <<"H">>, UserEq \o <<"U">>,
                        PasswordEq \o <<"x">>, DbnameEq \o <<"D">>>>, <<" ">>)

InitTable ==
    <<[k1 |-> Cell(<<"a">>), k2 |-> Cell(<<>>)],
      [k1 |-> Cell(<<"a">>), k2 |-> Cell(<<"b">>)]>>

\* The server as it serves: the connection string logged, no invocation yet.
Init ==
    /\ db_config = DefaultConfig
    /\ log = <<sanitize_connection_string(DefaultConfig)>>
    /\ table = InitTable
    /\ conns = {}
    /\ inv = [i \in Invs |-> Idle]
    /\ calls = 0

Next ==
    \/ Invoke(1)
    \/ \E i \in Invs :
        \/ Connected(i)
        \/ ConnectFailed(i)
        \/ Decode(i)
        \/ Build(i)
        \/ Execute(i)
        \/ Marshal(i)
        \/ Respond(i)

Spec == Init /\ [][Next]_vars

\* main() from its first line, for any connection string, serving
\* get_connection_status.
InitMain ==
    /\ db_config \in ConnStrings
    /\ log = <<>>
    /\ table = InitTable
    /\ conns = {}
    /\ inv = [i \in Invs |-> Idle]
    /\ calls = 0

NextMain ==
    \/ Start
    \/ InvokeStatus(1)
    \/ \E i \in Invs :
        \/ Connected(i)
        \/ ConnectFailed(i)
        \/ Decode(i)
        \/ Build(i)
        \/ Execute(i)
        \/ Marshal(i)
        \/ Respond(i)

SpecMain == InitMain /\ [][NextMain]_vars

\* A count_rows, then an insert_data, then a count_rows on the same table,
\* each invoked when the one before it has responded.
CountRequest ==
    Request("count_rows", [table_name |-> TableName, where_conditions |-> None])

InvokeInTurn(i, reqs) ==
    /\ log # <<>>
    /\ inv[i].pc = "Idle"
    /\ i > 1 => inv[i - 1].pc = "Responded"
    /\ \E req \in reqs : inv' = [inv EXCEPT ![i] = Received(req)]
    /\ UNCHANGED <<db_config, log, table, conns, calls>>

NextInsertCount ==
    \/ InvokeInTurn(1, {CountRequest})
    \/ InvokeInTurn(2, {Request("insert_data", [table_name |-> TableName, data |-> d]) :
                            d \in DataObjects})
    \/ InvokeInTurn(3, {CountRequest})
    \/ \E i \in Invs :
        \/ Connected(i)
        \/ ConnectFailed(i)
        \/ Decode(i)
        \/ Build(i)
        \/ Execute(i)
        \/ Marshal(i)
        \/ Respond(i)

SpecInsertCount == Init /\ [][NextInsertCount]_vars

\* Handlers running at the same time: a call may arrive while others are
\* in progress.
ConcurrentRequests ==
    {CountRequest,
     Request("count_rows", [table_name |-> TableName,
                            where_conditions |-> Some(JText(Ta))]),
     Request("insert_data", [table_name |-> TableName,
                             data |-> JObject(<<Entry(K1, JText(Ta))>>)]),
     Request("delete_data", [table_name |-> TableName,
                             where_conditions |-> JObject(<<Entry(K2, JText(<<>>))>>),
                             limit |-> None]),
     Request("get_table_sample", [table_name |-> TableName, limit |-> None])}

InvokeConcurrently(i) ==
    /\ log # <<>>
    /\ inv[i].pc = "Idle"
    /\ \E req \in ConcurrentRequests : inv' = [inv EXCEPT ![i] = Received(req)]
    /\ UNCHANGED <<db_config, log, table, conns, calls>>

Step(i) ==
    \/ Connected(i)
    \/ ConnectFailed(i)
    \/ Decode(i)
    \/ Build(i)
    \/ Execute(i)
    \/ Marshal(i)
    \/ Respond(i)

NextConcurrent ==
    \/ \E i \in 1..MaxConcurrent : InvokeConcurrently(i)
    \/ \E i \in Invs : Step(i)

SpecConcurrent == Init /\ [][NextConcurrent]_vars

(***************************************************************************)
(* Properties.                                                             *)
(***************************************************************************)
Sent(i) == inv[i].sent

EndsWith(s, tail) ==
    Len(tail) <= Len(s) /\ From(s, Len(s) - Len(tail) + 1) = tail

\* C1: the row limit in the SELECT that get_table_sample issues lies in
\* [1,100]: 10 for an absent, zero or negative limit, 100 for one above
\* 100, the requested limit otherwise.
ClampedLimit(limit) ==
    IF limit.kind = "none" \/ limit.v <= 0 THEN 10
    ELSE IF limit.v > 100 THEN 100
    ELSE limit.v

C1_SampleLimitClamped ==
    \A i \in Invs :
        (inv[i].op = "get_table_sample" /\ Sent(i) # <<>>) =>
            EndsWith(Sent(i)[1].text,
                     <<"LIMIT">> \o Decimal(ClampedLimit(inv[i].args.limit)))

\* A row holds the value of a where_conditions entry in the entry's column.
HoldsValue(cell, v) ==
    CASE v.kind = "text" -> ~cell.null /\ cell.s = v.s
      [] v.kind = "number" -> ~cell.null /\ cell.s = Decimal(v.n)
      [] v.kind = "bool" -> ~cell.null /\ cell.s = to_string(v)
      [] OTHER -> cell.null

RowMatches(row, entries) ==
    \A j \in 1..Len(entries) : HoldsValue(row[entries[j].k[1]], entries[j].v)

MatchingRows(tbl, entries) == {r \in 1..Len(tbl) : RowMatches(tbl[r], entries)}

\* C2: when update_data or delete_data executes its statement, every row
\* it changes or removes holds, for every entry of where_conditions, the
\* entry's value in the entry's column.
C2_OnlyMatchingRowsAffected ==
    [][\A i \in Invs :
        (inv[i].pc = "Built" /\ inv'[i].pc = "Executed"
            /\ inv[i].op \in {"update_data", "delete_data"}) =>
        LET entries == inv[i].args.where_conditions.entries
        IN  IF inv[i].op = "update_data"
            THEN \A r \in 1..Len(table) :
                    table'[r] # table[r] => RowMatches(table[r], entries)
            ELSE \E D \in SUBSET MatchingRows(table, entries) :
                    table' = Without(table, D, 1)]_vars

\* C3: the statement of update_data and delete_data ends with the row
\* ceiling (the requested limit, 1000 when absent), and rows_affected in
\* the response never exceeds the ceiling.
Ceiling(limit) == IF limit.kind = "some" THEN limit.v ELSE 1000

C3_RowCeiling ==
    \A i \in Invs :
        (inv[i].op \in {"update_data", "delete_data"} /\ Sent(i) # <<>>) =>
            /\ EndsWith(Sent(i)[1].text,
                        <<"LIMIT">> \o Decimal(Ceiling(inv[i].args.limit)))
            /\ inv[i].pc = "Responded" =>
                  inv[i].resp.body.rows_affected <= Ceiling(inv[i].args.limit)

\* C4: an invocation of count_rows, insert_data, update_data or
\* delete_data with a non-object where an object is required ends Failed
\* with error kind InvalidParameters, and no statement was issued.
WrongShape(op, args) ==
    \/ op = "count_rows" /\ args.where_conditions.kind = "some"
          /\ args.where_conditions.v.kind # "object"
    \/ op = "insert_data" /\ args.data.kind # "object"
    \/ op = "update_data"
          /\ (args.values.kind # "object" \/ args.where_conditions.kind # "object")
    \/ op = "delete_data" /\ args.where_conditions.kind # "object"

C4_NonObjectIsInvalidParameters ==
    \A i \in Invs :
        WrongShape(inv[i].op, inv[i].args) =>
            /\ Sent(i) = <<>> /\ inv[i].stmts = <<>>
            /\ inv[i].pc # "Responded"
            /\ inv[i].pc = "Failed" => inv[i].resp.code = "invalid_params"

\* C5: execute_raw_query calls the query primitive and responds with rows
\* and count exactly when the first characters of the text after its
\* leading whitespace are the letters of SELECT in either case; for every
\* other text it calls execute and responds with rows_affected alone.
SelectLetters ==
    <<{"s", "S"}, {"e", "E"}, {"l", "L"}, {"e", "E"}, {"c", "C"}, {"t", "T"}>>

LeadingSelect(q) ==
    \E j \in 1..Len(q) :
        /\ \A k \in 1..(j - 1) : q[k] \in Whitespace
        /\ j + 5 <= Len(q)
        /\ \A k \in 1..6 : q[j + k - 1] \in SelectLetters[k]

C5_RawQueryClassified ==
    \A i \in Invs :
        inv[i].op = "execute_raw_query" =>
            /\ Sent(i) # <<>> =>
                  Sent(i)[1].prim =
                      IF LeadingSelect(inv[i].args.query) THEN "query" ELSE "execute"
            /\ inv[i].pc = "Responded" =>
                  DOMAIN inv[i].resp.body =
                      IF LeadingSelect(inv[i].args.query)
                      THEN {"rows", "count"}
                      ELSE {"rows_affected"}

C5_Witness ==
    \E i \in Invs :
        /\ inv[i].op = "execute_raw_query"
        /\ inv[i].pc = "Responded"
        /\ inv[i].args.query = <<"\n", " ", "S", "e", "L", "e", "c", "T", " ", "1", " ">>
        /\ inv[i].resp.body.count = 1

\* C6: every statement handed to the database has as many bound values as
\* its text has placeholders, and no caller-supplied data value appears in
\* its text.
CallerValues(op, args) ==
    LET texts(entries) ==
            {entries[j].v.s : j \in {k \in 1..Len(entries) : entries[k].v.kind = "text"}}
    IN  CASE op = "insert_data" -> texts(args.data.entries)
          [] op = "update_data" ->
                texts(args.values.entries) \cup texts(args.where_conditions.entries)
          [] op = "delete_data" -> texts(args.where_conditions.entries)
          [] op = "count_rows" ->
                IF args.where_conditions.kind = "some"
                THEN texts(args.where_conditions.v.entries)
                ELSE {}
          [] op \in {"get_schema", "get_relationships"} ->
                IF args.table_name.kind = "some" THEN {args.table_name.v} ELSE {}
          [] OTHER -> {}

PlaceholderCount(text) == Cardinality({k \in 1..Len(text) : text[k] = "$"})

C6_ValuesBoundNotEmbedded ==
    \A i \in Invs : \A k \in 1..Len(Sent(i)) :
        /\ PlaceholderCount(Sent(i)[k].text) = Len(Sent(i)[k].params)
        /\ \A v \in CallerValues(inv[i].op, inv[i].args) :
              ~contains(Sent(i)[k].text, v)

\* The password values of a connection string as the connection reads it:
\* the text after a password= key up to the next whitespace, or between
\* single quotes when the value is quoted.
Until(s, stop) ==
    LET ends == {k \in 1..Len(s) : s[k] \in stop}
    IN  IF ends = {} THEN s
        ELSE SubSeq(s, 1, (CHOOSE k \in ends : \A j \in ends : k <= j) - 1)

ValueAt(config, p) ==
    IF p <= Len(config) /\ config[p] = "'"
    THEN Until(From(config, p + 1), {"'"})
    ELSE Until(From(config, p), Whitespace)

PasswordValues(config) ==
    {ValueAt(config, p + Len(PasswordEq)) :
        p \in {k \in 1..Len(config) :
                  /\ MatchAt(config, PasswordEq, k)
                  /\ k = 1 \/ config[k - 1] \in Whitespace}}

RECURSIVE SplitSpace(_)
SplitSpace(s) ==
    LET p == find(s, <<" ">>)
    IN  IF Len(s) = 0 \/ p = 0 THEN <<s>>
        ELSE <<SubSeq(s, 1, p - 1)>> \o SplitSpace(From(s, p + 1))

\* C8: for a connection string that contains password=, the logged string
\* contains password=***, contains no password value, and keeps every
\* other token unchanged and in place.
C8_PasswordMasked ==
    (log # <<>> /\ contains(db_config, PasswordEq)) =>
        /\ contains(log[1], PasswordEq \o Stars)
        /\ \A v \in PasswordValues(db_config) : ~contains(log[1], v)
        /\ Len(SplitSpace(log[1])) = Len(SplitSpace(db_config))
        /\ \A j \in 1..Len(SplitSpace(db_config)) :
              ~starts_with(SplitSpace(db_config)[j], PasswordEq) =>
                  SplitSpace(log[1])[j] = SplitSpace(db_config)[j]

\* C9: a connection string without password= is logged unchanged.
C9_NoPasswordUnchanged ==
    (log # <<>> /\ ~contains(db_config, PasswordEq)) => log[1] = db_config

C9_Witness ==
    /\ log # <<>>
    /\ db_config = Join(<<HostEq \o <<"H">>,
                          <<"p", "a", "s", "s", "w", "d", "=", "z">>,
                          DbnameEq \o <<"D">>>>, <<" ">>)
    /\ log[1] = db_config

\* C10: a non-null column is marshalled to the JSON kind of its type
\* family: int2, int4 and int8 to the integer stored, float4 and float8 to
\* a float, bool to a boolean, the character types to a string.
Family(ty) ==
    CASE ty \in {"int2", "int4", "int8"} -> "number"
      [] ty \in {"float4", "float8"} -> "float"
      [] ty = "bool" -> "bool"
      [] ty \in {"text", "varchar", "bpchar"} -> "text"
      [] OTHER -> "other"

Field(obj, name) ==
    obj.entries[CHOOSE j \in 1..Len(obj.entries) : obj.entries[j].k = name].v

C10_KindsMatchColumnTypes ==
    \A i \in Invs :
        (inv[i].pc \in {"Marshalled", "Responded"}
            /\ MarshalsRows(inv[i].op, inv[i].args)) =>
        \A r \in 1..Len(inv[i].json) :
            LET row == inv[i].results[1].rows[r]
            IN  \A c \in 1..Len(row) :
                    (/\ ~row[c].null
                     /\ Family(row[c].ty) # "other"
                     /\ \A d \in 1..Len(row) : row[d].name = row[c].name => d = c) =>
                        /\ Field(inv[i].json[r], row[c].name).kind = Family(row[c].ty)
                        /\ Family(row[c].ty) = "number" =>
                              Field(inv[i].json[r], row[c].name).n = row[c].n

\* The field of a record carries the value stored in a column, or is null.
Carries(v, column) ==
    CASE v.kind = "null" -> TRUE
      [] v.kind = "number" -> v.n = column.n
      [] v.kind = "float" -> v.f = column.s
      [] v.kind = "bool" -> v.b = column.b
      [] v.kind = "text" -> v.s = column.s
      [] OTHER -> FALSE

UniqueName(row, c) == \A d \in 1..Len(row) : row[d].name = row[c].name => d = c

ReportedCount(op, body) == IF op = "query_data" THEN body.row_count ELSE body.count

\* C11: for query_data, get_table_sample and a row-returning
\* execute_raw_query there are as many records as rows in the result set,
\* the r-th record is made from the r-th row (each field null or the value
\* of the row's column), and the reported count is the number of rows.
C11_RecordPerRow ==
    \A i \in Invs :
        (inv[i].pc \in {"Marshalled", "Responded"}
            /\ MarshalsRows(inv[i].op, inv[i].args)) =>
        LET rows == inv[i].results[1].rows
        IN  /\ Len(inv[i].json) = Len(rows)
            /\ \A r \in 1..Len(rows) :
                  /\ inv[i].json[r].kind = "object"
                  /\ {inv[i].json[r].entries[k].k : k \in 1..Len(inv[i].json[r].entries)}
                        = {rows[r][c].name : c \in 1..Len(rows[r])}
                  /\ \A c \in 1..Len(rows[r]) :
                        UniqueName(rows[r], c) =>
                            Carries(Field(inv[i].json[r], rows[r][c].name), rows[r][c])
            /\ inv[i].pc = "Responded" =>
                  /\ inv[i].resp.kind = "success"
                  /\ inv[i].resp.body.rows = inv[i].json
                  /\ ReportedCount(inv[i].op, inv[i].resp.body) = Len(rows)

C11_Witness ==
    \E i \in Invs :
        /\ inv[i].pc = "Responded"
        /\ inv[i].op = "query_data"
        /\ inv[i].results[1].rows = OrderedRows
        /\ inv[i].resp.body.row_count = 3
        /\ Field(inv[i].json[1], NameA) = JNumber(1)
        /\ Field(inv[i].json[2], NameA) = JNull
        /\ Field(inv[i].json[3], NameA) = JNumber(3)

\* C12: the keys of every marshalled record are the column names of its
\* row, one key per column, in the row's column order.
C12_KeysInColumnOrder ==
    \A i \in Invs :
        (inv[i].pc \in {"Marshalled", "Responded"}
            /\ MarshalsRows(inv[i].op, inv[i].args)) =>
        \A r \in 1..Len(inv[i].json) :
            [k \in 1..Len(inv[i].json[r].entries) |-> inv[i].json[r].entries[k].k]
                = [c \in 1..Len(inv[i].results[1].rows[r]) |->
                      inv[i].results[1].rows[r][c].name]

\* C13: when a count_rows, an insert_data and a second count_rows on the
\* same table have responded in turn, the second count is the first plus
\* one.
C13_InsertAddsOneToCount ==
    (inv[1].pc = "Responded" /\ inv[2].pc = "Responded" /\ inv[3].pc = "Responded") =>
        inv[3].resp.body.count = inv[1].resp.body.count + 1

C13_Witness ==
    /\ inv[1].pc = "Responded" /\ inv[2].pc = "Responded" /\ inv[3].pc = "Responded"
    /\ inv[2].args.data = JObject(<<Entry(K1, JNumber(5)), Entry(K2, JText(Ta))>>)
    /\ inv[1].resp.body.count = 2
    /\ inv[3].resp.body.count = 3

Holding == {i \in Invs : inv[i].client # 0}

\* The next step of an invocation in progress can be taken now: a
\* connection is there for it to open, the database answers its statement,
\* and its other stages depend on nothing but itself.
CanProceed(i) ==
    CASE inv[i].pc = "Received" -> ENABLED Connected(i)
      [] inv[i].pc = "Built" -> DbOutcomes(Head(inv[i].stmts), table) # {}
      [] OTHER -> ENABLED (Decode(i) \/ Build(i) \/ Marshal(i) \/ Respond(i))

\* C14: with invocations in progress at the same time, each holds a
\* connection of its own, the connections open are the ones the invocations
\* hold, every invocation that has not ended can take its next step
\* whatever the others are doing, and the connection string is unchanged.
C14_IndependentInvocations ==
    /\ \A i, j \in Holding : inv[i].client = inv[j].client => i = j
    /\ conns = {inv[i].client : i \in Holding}
    /\ \A i \in Invs : inv[i].pc \notin Terminal \cup {"Idle"} => CanProceed(i)
    /\ db_config = DefaultConfig

C14_Witness ==
    /\ inv[1].pc = "Built" /\ inv[1].op = "delete_data"
    /\ inv[2].pc = "Built" /\ inv[2].op = "insert_data"
    /\ inv[1].client # 0 /\ inv[2].client # 0
    /\ inv[1].client # inv[2].client

\* The handlers that decode a JSON argument themselves (as_object)
DecodesValue(op, args) ==
    \/ op \in {"insert_data", "update_data", "delete_data"}
    \/ op = "count_rows" /\ args.where_conditions.kind = "some"

StageOrder ==
    {<<"Idle", "Received">>, <<"Responded", "Received">>, <<"Failed", "Received">>,
     <<"Received", "Connected">>, <<"Connected", "Decoded">>, <<"Decoded", "Built">>,
     <<"Built", "Built">>, <<"Built", "Executed">>, <<"Executed", "Marshalled">>,
     <<"Marshalled", "Responded">>}

\* C15: an invocation goes from stage to stage in the order Received,
\* Decoded, Built, Executed, Marshalled, Responded, or to Failed; and it
\* holds a connection or has issued a statement only when its arguments
\* have been decoded.
C15_StagesInOrder ==
    [][\A i \in Invs :
        /\ inv'[i].pc # inv[i].pc =>
              \/ inv'[i].pc = "Failed" /\ inv[i].pc \notin Terminal \cup {"Idle"}
              \/ <<inv[i].pc, inv'[i].pc>> \in StageOrder
        /\ (DecodesValue(inv'[i].op, inv'[i].args)
                /\ (inv'[i].client # 0 \/ inv'[i].sent # <<>>)) =>
              inv'[i].pc \notin {"Received", "Connected"}]_vars

Ended(i) == inv[i].pc \in Terminal \cup {"Idle"}

\* C16: an invocation that has ended holds no connection, an invocation
\* in progress past get_client holds exactly one, every open connection is
\* held by an invocation in progress, and none is open when all have ended.
C16_ConnectionReleased ==
    /\ \A i \in Invs : Ended(i) => inv[i].client = 0
    /\ \A i \in Invs : (~Ended(i) /\ inv[i].pc # "Received") => inv[i].client \in conns
    /\ Cardinality(conns) = Cardinality({i \in Invs : ~Ended(i) /\ inv[i].pc # "Received"})
    /\ (\A i \in Invs : Ended(i)) => conns = {}

C16_Witness ==
    /\ conns = {}
    /\ calls = 2
    /\ \E i \in Invs :
        /\ inv[i].op = "describe_table"
        /\ inv[i].pc = "Failed"
        /\ Len(inv[i].sent) = 2
        /\ inv[i].resp = InternalError("query failed")

\* C17: insert_data binds one value per entry of data, the j-th to the
\* j-th placeholder and column, each with the type and content of the
\* entry's value (its bound values are Strings, so this asks for a text
\* value and the same text); with an array among the values it issues no
\* statement and does not respond.
C17_InsertBindsTypedValues ==
    \A i \in Invs :
        (inv[i].op = "insert_data" /\ inv[i].args.data.kind = "object") =>
        LET entries == inv[i].args.data.entries
        IN  /\ (\E j \in 1..Len(entries) : entries[j].v.kind = "array") =>
                  Sent(i) = <<>> /\ inv[i].pc # "Responded"
            /\ \A k \in 1..Len(Sent(i)) :
                  /\ Len(Sent(i)[k].params) = Len(entries)
                  /\ \A j \in 1..Len(entries) :
                        /\ entries[j].v.kind = "text"
                        /\ Sent(i)[k].params[j] = entries[j].v.s

\* The where_conditions object of an invocation that was given one
GivenWhere(op, args) ==
    IF op \in {"update_data", "delete_data"} /\ args.where_conditions.kind = "object"
    THEN Some(args.where_conditions.entries)
    ELSE IF op = "count_rows" /\ args.where_conditions.kind = "some"
            /\ args.where_conditions.v.kind = "object"
    THEN Some(args.where_conditions.v.entries)
    ELSE None

\* C18: a statement of update_data, delete_data or count_rows given
\* where_conditions has WHERE in its text and, as the database reads it, a
\* predicate; with the empty object the statement is not carried out: the
\* invocation gets no result and, once the statement is sent, has Failed.
C18_NeverUnfiltered ==
    \A i \in Invs :
        GivenWhere(inv[i].op, inv[i].args).kind = "some" =>
            /\ \A k \in 1..Len(Sent(i)) :
                  /\ contains(Sent(i)[k].text, <<"WHERE">>)
                  /\ Parse(Sent(i)[k].text).ok => Parse(Sent(i)[k].text).conds # <<>>
            /\ GivenWhere(inv[i].op, inv[i].args).v = <<>> =>
                  /\ inv[i].results = <<>>
                  /\ Sent(i) # <<>> => inv[i].pc = "Failed"

=============================================================================
